---- MODULE Spec2Model ----
(***************************************************************************)
(* PureRemove front end (App component): the single / clipboard pipeline,  *)
(* the batch pipeline with its 'batch-progress' listener, the background   *)
(* effect, reset, the copy / save handlers with their dialogs, the error   *)
(* toast, and DropZone with its path filter and its drag-drop effect.  The *)
(* Tauri back end (process_*, save_* and copy commands, the event          *)
(* emitters) is the environment: each invocation settles once, each batch  *)
(* run emits one progress event per item.                                  *)
(***************************************************************************)
EXTENDS Integers, Sequences, FiniteSets, TLC

VARIABLES
    mode,              \* useState<AppMode>
    single,            \* useState<SingleState | null>
    batchItems,        \* useState<ImageItem[]>
    background,        \* useState<BackgroundColor>
    singleSourceRef,   \* useRef: remembered source for reprocessing
    bgInitRef,         \* useRef(true): skips the background effect at first render
    batchUnlistenRef,  \* useRef: unlisten handle of the batch listener (0: null)
    modelCheck,        \* check_model invocation: "init", "pending", "failed"
    listeners,         \* handlers registered on the 'batch-progress' channel
    inflight,          \* pending process_single / process_clipboard / reprocess invocations
    runs,              \* per processBatch call: its position and its back end run
    nextOp,            \* next invocation number (one per processing command issued)
    overlapped,        \* history: single requests that were pending when a later one was issued
    sessionOwner,      \* history: the capture with no submission issued after it (0: none)
    sessionActive,     \* history: that capture has succeeded, with no reset since
    discarded,         \* history: batch runs whose item list was discarded by reset()
    globalError,       \* useState<string | null>: the error toast
    isSavingBatch,     \* useState(false)
    sinkFlows,         \* save / copy handlers suspended at a dialog or at a sink command
    dropListeners,     \* drag-drop handlers DropZone's effect asked the webview to register
    nextEffect         \* next run of DropZone's drag-drop effect

vars == <<mode, single, batchItems, background, singleSourceRef, bgInitRef,
          batchUnlistenRef, modelCheck, listeners, inflight, runs, nextOp,
          overlapped, sessionOwner, sessionActive, discarded, globalError,
          isSavingBatch, sinkFlows, dropListeners, nextEffect>>

\* What the save and copy handlers write.
sinkVars == <<isSavingBatch, sinkFlows>>
\* What DropZone's drag-drop effect writes.
dropVars == <<dropListeners, nextEffect>>

\* ---------------------------------------------------------------- bounds

\* Processing commands (single, clipboard, reprocess, batch) issued in one behaviour.
MaxOps == 2
\* Longest batch submitted.
MaxBatchLen == 3
\* Save / copy handlers suspended at the same time.
MaxSinkFlows == 1
\* Longest batch submitted when the whole front end is explored at once.
MaxAppBatchLen == 2
\* Most pieces in a file name given to the name computations on their own.
MaxNameLen == 5
\* Runs of DropZone's drag-drop effect in one behaviour.
MaxEffects == 3

\* ---------------------------------------------------------------- values

Null == [null |-> TRUE]

Backgrounds == {"Transparent", "White"}

\* A path is the sequence of its segments (what split(/[\\/]/) yields), a segment the
\* sequence of its pieces: a dot, or a run of characters without dot or separator.
\* The empty string, which is also the clipboard marker, is the path without segment.
EmptyPath == << >>
EmptySeg == << >>
Dot == "."
FileNames == << <<"a", Dot, "png">>, <<"b", Dot, "jpg">>, <<"c", Dot, "v2", Dot, "webp">>,
                <<"d", Dot, "png">>, <<"e", Dot, "png">> >>
PathOf(i) == << <<"in">>, FileNames[i] >>

\* Strings that travel through the UI state: data URLs, asset URLs, messages.
Undefined == [kind |-> "undefined", op |-> 0, idx |-> 0, bg |-> "", path |-> EmptyPath]
EmptyStr == [kind |-> "empty", op |-> 0, idx |-> 0, bg |-> "", path |-> EmptyPath]
ResultUrl(op, idx, bg) == [kind |-> "result", op |-> op, idx |-> idx, bg |-> bg, path |-> EmptyPath]
ErrMsg(op, idx) == [kind |-> "error", op |-> op, idx |-> idx, bg |-> "", path |-> EmptyPath]
convertFileSrc(path) == [kind |-> "asset", op |-> 0, idx |-> 0, bg |-> "", path |-> path]
\* showError's message for the failure of `what` (invocation op, 0 for a sink command).
Toast(what, op) == [kind |-> what, op |-> op, idx |-> 0, bg |-> "", path |-> EmptyPath]
\* JavaScript truthiness of an optional string.
Truthy(s) == s.kind \notin {"undefined", "empty"}

\* p.split(/[\\/]/).pop()
Basename(path) == IF Len(path) = 0 THEN EmptySeg ELSE path[Len(path)]

\* generateId(): a token unique to the item.
generateId(op, i) == <<op, i>>

OpIds == 1..MaxOps
NoRun == [pc |-> "none", paths |-> << >>, bg |-> "", pending |-> {}, failed |-> {},
          rejected |-> FALSE]

\* ---------------------------------------------------------------- pure parts

\* A handler that ignores event.index and fills the first item still unfinished,
\* that is, one that places results by arrival order.
OnBatchProgress_ByArrival(prev, ev) ==
    LET open == {i \in DOMAIN prev : prev[i].status \notin {"done", "error"}} IN
    [i \in DOMAIN prev |->
        IF open /= {} /\ i = CHOOSE j \in open : \A k \in open : j <= k
        THEN [prev[i] EXCEPT !.status = IF Truthy(ev.error) THEN "error" ELSE "done",
                             !.resultDataUrl = ev.result_data_url,
                             !.error = ev.error]
        ELSE prev[i]]

\* A handler that stores the outcome at event.index, growing the list when the index
\* lies beyond its end.
OnBatchProgress_Grows(prev, ev) ==
    LET item == [id |-> generateId(0, ev.index + 1), name |-> EmptySeg, sourcePath |-> EmptyPath,
                 status |-> IF Truthy(ev.error) THEN "error" ELSE "done",
                 resultDataUrl |-> ev.result_data_url, error |-> ev.error]
    IN IF ev.index >= Len(prev) /\ prev /= << >>
       THEN Append(prev, item)
       ELSE [i \in DOMAIN prev |->
                IF i - 1 = ev.index
                THEN [prev[i] EXCEPT !.status = item.status,
                                     !.resultDataUrl = ev.result_data_url,
                                     !.error = ev.error]
                ELSE prev[i]]

\* The 'batch-progress' handler's updater: prev.map((item, i) => i === index ? ... : item).
\* event.index is 0-based; sequences here are 1-based.
OnBatchProgress(prev, ev) ==
    [i \in DOMAIN prev |->
        IF i - 1 = ev.index
        THEN [prev[i] EXCEPT !.status = IF Truthy(ev.error) THEN "error" ELSE "done",
                             !.resultDataUrl = ev.result_data_url,
                             !.error = ev.error]
        ELSE prev[i]]

\* One event handed to each of the k registered handlers.
RECURSIVE Dispatch(_, _, _)
Dispatch(prev, ev, k) ==
    IF k = 0 THEN prev ELSE Dispatch(OnBatchProgress(prev, ev), ev, k - 1)

\* paths.map(p => ({ id, name, sourcePath: p, status: "pending" }))
NewItems(op, paths) ==
    [i \in DOMAIN paths |->
        [id |-> generateId(op, i), name |-> Basename(paths[i]), sourcePath |-> paths[i],
         status |-> "pending", resultDataUrl |-> Undefined, error |-> Undefined]]

\* prev.map(item => ({ ...item, status: "processing" }))
MarkProcessing(prev) == [i \in DOMAIN prev |-> [prev[i] EXCEPT !.status = "processing"]]

\* name.replace(/\.[^.]+$/, ""): the last dot and what follows it are removed when
\* at least one piece follows that dot.
LastDot(seg) ==
    IF \E k \in DOMAIN seg : seg[k] = Dot
    THEN CHOOSE k \in DOMAIN seg : seg[k] = Dot /\ \A j \in DOMAIN seg : seg[j] = Dot => j <= k
    ELSE 0
StripExt(seg) ==
    LET k == LastDot(seg) IN
    IF k > 0 /\ k < Len(seg) THEN SubSeq(seg, 1, k - 1) ELSE seg

\* handleSaveSingle: baseName, then defaultPath `${baseName}_nobg.png`.
baseName(sourcePath) ==
    IF sourcePath /= EmptyPath THEN StripExt(Basename(sourcePath)) ELSE <<"output">>
SingleDefaultPath(sourcePath) == baseName(sourcePath) \o <<"_nobg", Dot, "png">>

\* A stem that drops everything from the first dot on.
stem_FirstDot(name) ==
    IF \E k \in DOMAIN name : name[k] = Dot
    THEN SubSeq(name, 1, (CHOOSE k \in DOMAIN name :
                            name[k] = Dot /\ \A j \in DOMAIN name : name[j] = Dot => k <= j) - 1)
    ELSE name

\* handleSaveOne: stem, then defaultPath `${stem}_nobg.png`.
stem(name) == StripExt(name)
ItemDefaultPath(name) == stem(name) \o <<"_nobg", Dot, "png">>

\* A selection that hands over every item, whatever its status.
doneItems_All(items) == items

\* handleSaveAll: batchItems.filter(i => i.status === "done" && i.resultDataUrl)
doneItems(items) == SelectSeq(items, LAMBDA it : it.status = "done" /\ Truthy(it.resultDataUrl))
\* doneItems.map(i => [i.name, i.resultDataUrl])
SinkItems(ds) == [k \in DOMAIN ds |-> <<ds[k].name, ds[k].resultDataUrl>>]

\* ACCEPTED_EXTENSIONS
ACCEPTED_EXTENSIONS ==
    {"png", "jpg", "jpeg", "webp", "svg", "bmp", "gif", "tif", "tiff", "ico",
     "tga", "pnm", "pbm", "pgm", "ppm", "hdr", "ff", "qoi"}

\* toLowerCase() on the pieces that occur in upper case.
toLowerCase(piece) ==
    CASE piece = "PNG" -> "png" [] piece = "JPG" -> "jpg" [] OTHER -> piece

\* The path as the string the webview hands over: a full path, in which a separator
\* precedes every segment (after the drive on Windows).
Sep == "/"
RECURSIVE PathString(_)
PathString(path) ==
    IF path = << >> THEN << >>
    ELSE PathString(SubSeq(path, 1, Len(path) - 1)) \o <<Sep>> \o path[Len(path)]

\* p.split(".").pop(): what follows the last dot of the whole string, the whole
\* string when it has no dot.
SplitDotPop(str) == SubSeq(str, LastDot(str) + 1, Len(str))

\* A filter that lets every path through.
isImagePath_Any(p) == TRUE

\* isImagePath: the lower-cased text after the last dot is an accepted extension.
\* (Pieces are whole runs: the text is an extension only when it is one piece.)
isImagePath(p) ==
    LET ext == SplitDotPop(PathString(p)) IN
    Len(ext) = 1 /\ toLowerCase(ext[1]) \in ACCEPTED_EXTENSIONS

\* BatchList: done, total, allDone.
done(items) == Cardinality({i \in DOMAIN items : items[i].status = "done"})
total(items) == Len(items)
allDone(items) == done(items) = total(items) /\ total(items) > 0

\* The event the back end emits for item i (0-based) of run op.
ProgressEvent(op, i, ok) ==
    [index |-> i,
     result_data_url |-> IF ok THEN ResultUrl(op, i, runs[op].bg) ELSE Undefined,
     error |-> IF ok THEN Undefined ELSE ErrMsg(op, i)]

\* ---------------------------------------------------------------- rendering

modelError == modelCheck = "failed"
\* <DropZone .../> is mounted in idle mode and inert while disabled.
DropZoneEnabled == ~bgInitRef /\ mode = "idle" /\ ~modelError
\* <OutputOptions disabled={single?.isProcessing} />
OutputOptionsEnabled == ~bgInitRef /\ ~(single /= Null /\ single.isProcessing)
\* The reset button of SplitPreview or of BatchList is on screen.
ResetShown == ~bgInitRef /\ ((mode = "single" /\ single /= Null) \/ mode = "batch")

\* ---------------------------------------------------------------- initial state

Init ==
    /\ mode = "idle"
    /\ single = Null
    /\ batchItems = << >>
    /\ background = "Transparent"
    /\ singleSourceRef = Null
    /\ bgInitRef = TRUE
    /\ batchUnlistenRef = 0
    /\ modelCheck = "init"
    /\ listeners = {}
    /\ inflight = {}
    /\ runs = [r \in OpIds |-> NoRun]
    /\ nextOp = 1
    /\ overlapped = {}
    /\ sessionOwner = 0
    /\ sessionActive = FALSE
    /\ discarded = {}
    /\ globalError = Null
    /\ isSavingBatch = FALSE
    /\ sinkFlows = [k \in 1..MaxSinkFlows |-> Null]
    /\ dropListeners = {}
    /\ nextEffect = 1

\* ---------------------------------------------------------------- single pipeline

\* An invocation is issued: it is pending until the back end settles it.
Issue(kind, path, bg) ==
    /\ nextOp <= MaxOps
    /\ inflight' = inflight \cup {[id |-> nextOp, kind |-> kind, path |-> path, bg |-> bg]}
    /\ nextOp' = nextOp + 1
    /\ overlapped' = overlapped \cup {r.id : r \in inflight}

\* processSinglePath up to its await; bg is getOptions() of the calling render.
ProcessSinglePath(path, previewDataUrl, bg) ==
    /\ singleSourceRef' = [path |-> path, dataUrl |-> previewDataUrl]
    /\ mode' = "single"
    /\ single' = [sourceDataUrl |-> previewDataUrl, sourcePath |-> path,
                  resultDataUrl |-> EmptyStr, isProcessing |-> TRUE]
    /\ Issue("single", path, bg)
    /\ sessionOwner' = 0
    /\ sessionActive' = FALSE

\* processClipboard up to its await.
ProcessClipboard(bg) ==
    /\ mode' = "single"
    /\ single' = [sourceDataUrl |-> EmptyStr, sourcePath |-> EmptyPath,
                  resultDataUrl |-> EmptyStr, isProcessing |-> TRUE]
    /\ Issue("clipboard", EmptyPath, bg)
    /\ sessionOwner' = nextOp
    /\ sessionActive' = FALSE
    /\ UNCHANGED singleSourceRef

\* A reprocess that reads the clipboard again: it goes through processClipboard.
ReprocessClipboard_Recapture(bg) == ProcessClipboard(bg)

\* reprocessClipboard up to its await.
ReprocessClipboard(bg) ==
    /\ single' = IF single /= Null THEN [single EXCEPT !.isProcessing = TRUE] ELSE Null
    /\ Issue("reprocess", EmptyPath, bg)
    /\ UNCHANGED <<singleSourceRef, mode, sessionOwner, sessionActive>>

\* A continuation that also copies the fresh result to the clipboard.
InvokeResolves_AutoCopy(req) ==
    /\ req \in inflight
    /\ inflight' = inflight \ {req}
    /\ LET result == ResultUrl(req.id, 0, req.bg) IN
       /\ single' = [sourceDataUrl |-> result, sourcePath |-> req.path,
                     resultDataUrl |-> result, isProcessing |-> FALSE]
       /\ sinkFlows' = [sinkFlows EXCEPT ![1] =
             [stage |-> "invoke", cmd |-> "copy_result_to_clipboard", defaultPath |-> EmptySeg,
              dataUrl |-> result, doneItems |-> << >>, items |-> << >>]]
    /\ UNCHANGED <<mode, batchItems, background, singleSourceRef, bgInitRef, batchUnlistenRef,
                   modelCheck, listeners, runs, nextOp, overlapped, sessionOwner,
                   sessionActive, discarded, globalError, isSavingBatch>>

\* The invocation resolves with its result: the continuation after the await.
InvokeResolves(req) ==
    /\ req \in inflight
    /\ inflight' = inflight \ {req}
    /\ LET result == ResultUrl(req.id, 0, req.bg) IN
       IF req.kind = "clipboard"
       THEN /\ singleSourceRef' = [path |-> EmptyPath, dataUrl |-> result]
            /\ single' = [sourceDataUrl |-> result, sourcePath |-> EmptyPath,
                          resultDataUrl |-> result, isProcessing |-> FALSE]
            /\ sessionActive' = (sessionOwner = req.id)
       ELSE /\ single' = IF single /= Null
                         THEN [single EXCEPT !.resultDataUrl = result, !.isProcessing = FALSE]
                         ELSE Null
            /\ UNCHANGED <<singleSourceRef, sessionActive>>
    /\ UNCHANGED <<mode, batchItems, background, bgInitRef, batchUnlistenRef, modelCheck,
                   listeners, runs, nextOp, overlapped, sessionOwner, discarded>>
    /\ UNCHANGED <<globalError, sinkVars>>

\* A catch branch that shows the error and also stores a payload for the invocation.
InvokeRejects_PartialResult(req) ==
    /\ req \in inflight
    /\ inflight' = inflight \ {req}
    /\ globalError' = Toast(req.kind, req.id)
    /\ single' = IF single /= Null
                 THEN [single EXCEPT !.resultDataUrl = ResultUrl(req.id, 0, req.bg),
                                     !.isProcessing = FALSE]
                 ELSE Null
    /\ UNCHANGED <<mode, batchItems, background, singleSourceRef, bgInitRef, batchUnlistenRef,
                   modelCheck, listeners, runs, nextOp, overlapped, sessionOwner,
                   sessionActive, discarded, sinkVars>>

\* A catch branch that shows the error and invokes the command once more.
InvokeRejects_Retry(req) ==
    /\ req \in inflight
    /\ nextOp <= MaxOps
    /\ inflight' = (inflight \ {req}) \cup {[req EXCEPT !.id = nextOp]}
    /\ nextOp' = nextOp + 1
    /\ globalError' = Toast(req.kind, req.id)
    /\ UNCHANGED <<mode, single, batchItems, background, singleSourceRef, bgInitRef,
                   batchUnlistenRef, modelCheck, listeners, runs, overlapped, sessionOwner,
                   sessionActive, discarded, sinkVars>>

\* The invocation rejects: the catch branch.
InvokeRejects(req) ==
    /\ req \in inflight
    /\ inflight' = inflight \ {req}
    /\ globalError' = Toast(req.kind, req.id)
    /\ IF req.kind = "clipboard"
       THEN /\ mode' = "idle"
            /\ single' = Null
       ELSE /\ single' = IF single /= Null THEN [single EXCEPT !.isProcessing = FALSE] ELSE Null
            /\ UNCHANGED mode
    /\ UNCHANGED <<batchItems, background, singleSourceRef, bgInitRef, batchUnlistenRef,
                   modelCheck, listeners, runs, nextOp, overlapped, sessionOwner,
                   sessionActive, discarded>>
    /\ UNCHANGED sinkVars

\* ---------------------------------------------------------------- batch pipeline

\* processBatch up to `await listen(...)`.
ProcessBatch(paths, bg) ==
    /\ nextOp <= MaxOps
    /\ singleSourceRef' = Null
    /\ batchItems' = NewItems(nextOp, paths)
    /\ mode' = "batch"
    /\ listeners' = listeners \ {batchUnlistenRef}
    /\ runs' = [runs EXCEPT ![nextOp] = [pc |-> "listen", paths |-> paths, bg |-> bg,
                                         pending |-> {}, failed |-> {},
                                         rejected |-> FALSE]]
    /\ nextOp' = nextOp + 1
    /\ sessionOwner' = 0
    /\ sessionActive' = FALSE

\* listen("batch-progress", handler) takes effect: from here on the handler receives
\* what is emitted on the channel, while processBatch is still suspended at the await.
ListenRegistered(r) ==
    /\ runs[r].pc = "listen"
    /\ listeners' = listeners \cup {r}
    /\ runs' = [runs EXCEPT ![r].pc = "registered"]
    /\ UNCHANGED <<mode, single, batchItems, background, singleSourceRef, bgInitRef,
                   batchUnlistenRef, modelCheck, inflight, nextOp, overlapped,
                   sessionOwner, sessionActive, discarded>>
    /\ UNCHANGED <<globalError, sinkVars>>

\* `await listen` returns: the handle is stored, every item of the current list is
\* marked processing and process_batch_images is invoked.
ListenResolves(r) ==
    /\ runs[r].pc = "registered"
    /\ batchUnlistenRef' = r
    /\ batchItems' = MarkProcessing(batchItems)
    /\ runs' = [runs EXCEPT ![r].pc = "running",
                            ![r].pending = {i - 1 : i \in DOMAIN runs[r].paths}]
    /\ UNCHANGED <<mode, single, background, singleSourceRef, bgInitRef, modelCheck,
                   listeners, inflight, nextOp, overlapped, sessionOwner, sessionActive,
                   discarded>>
    /\ UNCHANGED <<globalError, sinkVars>>

\* process_batch_images, back end side: a worker of run r still has item i (0-based)
\* to finish.  Each item of a run is finished, and its event emitted, exactly once,
\* whether or not the front end still observes the run.
WorkerFinishes(r, i) == runs[r].pc = "running" /\ i \in runs[r].pending

\* A worker of run r finishes item i and emits its 'batch-progress' event, which
\* every registered handler receives.
BatchProgress(r, i, ok) ==
    /\ WorkerFinishes(r, i)
    /\ runs' = [runs EXCEPT ![r].pending = @ \ {i},
                            ![r].failed = IF ok THEN @ ELSE @ \cup {i}]
    /\ batchItems' = Dispatch(batchItems, ProgressEvent(r, i, ok), Cardinality(listeners))
    /\ UNCHANGED <<mode, single, background, singleSourceRef, bgInitRef, batchUnlistenRef,
                   modelCheck, listeners, inflight, nextOp, overlapped, sessionOwner,
                   sessionActive, discarded>>
    /\ UNCHANGED <<globalError, sinkVars>>

\* invoke("process_batch_images") rejects: the catch branch only shows the error.  A
\* resolution runs no code.  The command may fail at any point of the run.
BatchInvokeRejects(r) ==
    /\ runs[r].pc = "running"
    /\ ~runs[r].rejected
    /\ runs' = [runs EXCEPT ![r].rejected = TRUE]
    /\ globalError' = Toast("batch", r)
    /\ UNCHANGED <<mode, single, batchItems, background, singleSourceRef, bgInitRef,
                   batchUnlistenRef, modelCheck, listeners, inflight, nextOp, overlapped,
                   sessionOwner, sessionActive, discarded, sinkVars>>

\* ---------------------------------------------------------------- user actions

\* handlePaths as created by a render whose background was bg (its getOptions is
\* that render's): one path goes to the single pipeline, several to the batch pipeline.
HandlePathsOf(paths, bg) ==
    IF Len(paths) = 1
    THEN /\ ProcessSinglePath(paths[1], convertFileSrc(paths[1]), bg)
         /\ UNCHANGED <<batchItems, listeners, runs>>
    ELSE /\ ProcessBatch(paths, bg)
         /\ UNCHANGED <<single, inflight, overlapped>>

\* handlePaths of the current render.
HandlePaths(paths) == HandlePathsOf(paths, background)

PathInputs == {[i \in 1..n |-> PathOf(i)] : n \in 1..MaxBatchLen}

\* Paths dropped on, or browsed from, the drop zone, handled with the props of the
\* current render (by handleBrowse, or by the drag-drop handler when its registration
\* has kept up with the renders): the image paths among them, if any, are handed to
\* onPaths.
Drop(paths) ==
    /\ nextOp <= MaxOps
    /\ DropZoneEnabled
    /\ LET images == SelectSeq(paths, isImagePath) IN
       /\ Len(images) > 0
       /\ HandlePaths(images)
    /\ UNCHANGED <<background, bgInitRef, batchUnlistenRef, modelCheck, discarded>>
    /\ UNCHANGED <<globalError, sinkVars>>

\* Ctrl+V on the drop zone.
Paste ==
    /\ DropZoneEnabled
    /\ ProcessClipboard(background)
    /\ UNCHANGED <<batchItems, background, bgInitRef, batchUnlistenRef, modelCheck,
                   listeners, runs, discarded>>
    /\ UNCHANGED <<globalError, sinkVars>>

\* The effect on [background], run after the render that applied the new value.
BackgroundEffect(bg) ==
    LET src == singleSourceRef IN
    IF src /= Null /\ mode = "single"
    THEN IF src.path = EmptyPath
         THEN ReprocessClipboard(bg)
         ELSE ProcessSinglePath(src.path, src.dataUrl, bg)
    ELSE UNCHANGED <<single, singleSourceRef, mode, inflight, nextOp, overlapped,
                     sessionOwner, sessionActive>>

\* A background change that, in batch mode, sends the items back to pending to have
\* them processed with the new options.
SetBackground_RestartsBatch(bg) ==
    /\ OutputOptionsEnabled
    /\ background' = bg
    /\ IF mode = "batch"
       THEN /\ batchItems' = [i \in DOMAIN batchItems |->
                                 [batchItems[i] EXCEPT !.status = "pending",
                                                       !.resultDataUrl = Undefined,
                                                       !.error = Undefined]]
            /\ UNCHANGED <<single, singleSourceRef, mode, inflight, nextOp, overlapped,
                           sessionOwner, sessionActive>>
       ELSE /\ BackgroundEffect(bg)
            /\ UNCHANGED batchItems
    /\ UNCHANGED <<bgInitRef, batchUnlistenRef, modelCheck, listeners, runs, discarded,
                   globalError, sinkVars>>

\* A background is picked in OutputOptions: setBackground, then the effect.
SetBackground(bg) ==
    /\ OutputOptionsEnabled
    /\ background' = bg
    /\ BackgroundEffect(bg)
    /\ UNCHANGED <<batchItems, bgInitRef, batchUnlistenRef, modelCheck, listeners, runs,
                   discarded>>
    /\ UNCHANGED <<globalError, sinkVars>>

\* handleReset
HandleReset ==
    /\ ResetShown
    /\ listeners' = listeners \ {batchUnlistenRef}
    /\ singleSourceRef' = Null
    /\ mode' = "idle"
    /\ single' = Null
    /\ batchItems' = << >>
    /\ sessionActive' = FALSE
    /\ discarded' = {r \in OpIds : runs[r].pc /= "none"}
    /\ UNCHANGED <<background, bgInitRef, batchUnlistenRef, modelCheck, inflight, runs,
                   nextOp, overlapped, sessionOwner>>
    /\ UNCHANGED <<globalError, sinkVars>>

\* ---------------------------------------------------------------- save and copy

\* A handler suspended at its dialog ("dialog") or at its sink command ("invoke").
\* dataUrl and doneItems are what its closure captured, items the command's argument.
Flow(stage, cmd, defaultPath, dataUrl, ds, items) ==
    [stage |-> stage, cmd |-> cmd, defaultPath |-> defaultPath, dataUrl |-> dataUrl,
     doneItems |-> ds, items |-> items]

FreeSlots == {k \in DOMAIN sinkFlows : sinkFlows[k] = Null}
StartFlow(f) ==
    /\ FreeSlots /= {}
    /\ sinkFlows' = [sinkFlows EXCEPT ![CHOOSE k \in FreeSlots : \A j \in FreeSlots : k <= j] = f]

\* The copy and save buttons of SplitPreview are on screen and enabled.
SingleButtonsEnabled == ~bgInitRef /\ mode = "single" /\ single /= Null /\ ~single.isProcessing
\* BatchList is on screen.
BatchListShown == ~bgInitRef /\ mode = "batch"

\* handleCopy: returns at once without a result, else invokes copy_result_to_clipboard.
HandleCopy ==
    /\ SingleButtonsEnabled
    /\ Truthy(single.resultDataUrl)
    /\ StartFlow(Flow("invoke", "copy_result_to_clipboard", EmptySeg, single.resultDataUrl,
                      << >>, << >>))
    /\ UNCHANGED <<mode, single, batchItems, background, singleSourceRef, bgInitRef,
                   batchUnlistenRef, modelCheck, listeners, inflight, runs, nextOp,
                   overlapped, sessionOwner, sessionActive, discarded, globalError,
                   isSavingBatch>>

\* handleSaveSingle up to `await save(...)`.
HandleSaveSingle ==
    /\ SingleButtonsEnabled
    /\ Truthy(single.resultDataUrl)
    /\ StartFlow(Flow("dialog", "save_result_to_file", SingleDefaultPath(single.sourcePath),
                      single.resultDataUrl, << >>, << >>))
    /\ UNCHANGED <<mode, single, batchItems, background, singleSourceRef, bgInitRef,
                   batchUnlistenRef, modelCheck, listeners, inflight, runs, nextOp,
                   overlapped, sessionOwner, sessionActive, discarded, globalError,
                   isSavingBatch>>

\* handleSaveOne(item) up to `await save(...)`; the button is shown on a done item.
HandleSaveOne(i) ==
    /\ BatchListShown
    /\ i \in DOMAIN batchItems
    /\ batchItems[i].status = "done"
    /\ Truthy(batchItems[i].resultDataUrl)
    /\ StartFlow(Flow("dialog", "save_result_to_file", ItemDefaultPath(batchItems[i].name),
                      batchItems[i].resultDataUrl, << >>, << >>))
    /\ UNCHANGED <<mode, single, batchItems, background, singleSourceRef, bgInitRef,
                   batchUnlistenRef, modelCheck, listeners, inflight, runs, nextOp,
                   overlapped, sessionOwner, sessionActive, discarded, globalError,
                   isSavingBatch>>

\* handleSaveAll up to `await open(...)`; the button is shown when allDone and is
\* disabled while isSaving.
HandleSaveAll ==
    /\ BatchListShown
    /\ allDone(batchItems)
    /\ ~isSavingBatch
    /\ doneItems(batchItems) /= << >>
    /\ StartFlow(Flow("dialog", "save_batch_to_folder", EmptySeg, Undefined,
                      doneItems(batchItems), << >>))
    /\ UNCHANGED <<mode, single, batchItems, background, singleSourceRef, bgInitRef,
                   batchUnlistenRef, modelCheck, listeners, inflight, runs, nextOp,
                   overlapped, sessionOwner, sessionActive, discarded, globalError,
                   isSavingBatch>>

\* The dialog returns a destination: the sink command is invoked with what the
\* handler captured (handleSaveAll first sets isSavingBatch).
DialogConfirms(k) ==
    /\ sinkFlows[k] /= Null
    /\ sinkFlows[k].stage = "dialog"
    /\ sinkFlows' = [sinkFlows EXCEPT ![k].stage = "invoke",
                                      ![k].items = SinkItems(sinkFlows[k].doneItems)]
    /\ isSavingBatch' = IF sinkFlows[k].cmd = "save_batch_to_folder" THEN TRUE
                        ELSE isSavingBatch
    /\ UNCHANGED <<mode, single, batchItems, background, singleSourceRef, bgInitRef,
                   batchUnlistenRef, modelCheck, listeners, inflight, runs, nextOp,
                   overlapped, sessionOwner, sessionActive, discarded, globalError>>

\* A handler whose end leaves isSavingBatch as it is.
FlowEnds_NoFinally(k) ==
    /\ sinkFlows' = [sinkFlows EXCEPT ![k] = Null]
    /\ UNCHANGED isSavingBatch

\* The handler ends: handleSaveAll's `finally` clears isSavingBatch.
FlowEnds(k) ==
    /\ sinkFlows' = [sinkFlows EXCEPT ![k] = Null]
    /\ isSavingBatch' = IF sinkFlows[k].cmd = "save_batch_to_folder" THEN FALSE
                        ELSE isSavingBatch

\* The dialog is cancelled: the handler returns without invoking anything.
DialogCancels(k) ==
    /\ sinkFlows[k] /= Null
    /\ sinkFlows[k].stage = "dialog"
    /\ FlowEnds(k)
    /\ UNCHANGED <<mode, single, batchItems, background, singleSourceRef, bgInitRef,
                   batchUnlistenRef, modelCheck, listeners, inflight, runs, nextOp,
                   overlapped, sessionOwner, sessionActive, discarded, globalError>>

\* The sink command resolves.
SinkResolves(k) ==
    /\ sinkFlows[k] /= Null
    /\ sinkFlows[k].stage = "invoke"
    /\ FlowEnds(k)
    /\ UNCHANGED <<mode, single, batchItems, background, singleSourceRef, bgInitRef,
                   batchUnlistenRef, modelCheck, listeners, inflight, runs, nextOp,
                   overlapped, sessionOwner, sessionActive, discarded, globalError>>

\* The dialog or the sink command rejects: the catch branch shows the error.
SinkRejects(k) ==
    /\ sinkFlows[k] /= Null
    /\ FlowEnds(k)
    /\ globalError' = Toast(sinkFlows[k].cmd, 0)
    /\ UNCHANGED <<mode, single, batchItems, background, singleSourceRef, bgInitRef,
                   batchUnlistenRef, modelCheck, listeners, inflight, runs, nextOp,
                   overlapped, sessionOwner, sessionActive, discarded>>

\* showError's timer fires: setGlobalError(null).  While a toast is shown the timer of
\* the showError call that set it is still pending; with no toast it changes nothing.
ToastExpires ==
    /\ globalError /= Null
    /\ globalError' = Null
    /\ UNCHANGED <<mode, single, batchItems, background, singleSourceRef, bgInitRef,
                   batchUnlistenRef, modelCheck, listeners, inflight, runs, nextOp,
                   overlapped, sessionOwner, sessionActive, discarded, sinkVars>>

\* ---------------------------------------------------------------- DropZone's drag-drop effect

\* <DropZone .../> is rendered.
DropZoneShown == ~bgInitRef /\ mode = "idle"

\* The handler an effect run hands to onDragDropEvent: it closes over the props of its
\* render (disabled, and onPaths = handlePaths with that render's background).  It
\* is not receiving events yet ("pending") until the registration has resolved
\* ("active"); kept tells whether the effect run it belongs to has not been cleaned up.
DropListener(id) ==
    [id |-> id, disabled |-> modelError', bg |-> background', pc |-> "pending", kept |-> TRUE]

\* The effect's cleanup, `unlisten?.()`: the handler of the current run is removed
\* when its registration has resolved (unlisten is set); otherwise unlisten is still
\* undefined, nothing is removed, and the later `.then` sets a variable nobody reads.
Cleanup(ls) ==
    {[l EXCEPT !.kept = FALSE] : l \in {x \in ls : ~(x.kept /\ x.pc = "active")}}

\* DropZone's effect on [disabled, onPaths] after a render: the cleanup of the
\* previous run when DropZone is unmounted or a dependency changed (changed), then a
\* new run when DropZone is (still, or newly) rendered.
DropZoneEffect(changed) ==
    LET cleanup == DropZoneShown /\ (~DropZoneShown' \/ changed)
        setup == DropZoneShown' /\ (~DropZoneShown \/ changed)
        left == IF cleanup THEN Cleanup(dropListeners) ELSE dropListeners
    IN /\ setup => nextEffect <= MaxEffects
       /\ dropListeners' = IF setup THEN left \cup {DropListener(nextEffect)} ELSE left
       /\ nextEffect' = IF setup THEN nextEffect + 1 ELSE nextEffect

\* onDragDropEvent(...) resolves: the handler receives the drag-drop events from now
\* on, and `.then` stores its unlisten function.
DropRegistered(id) ==
    /\ \E l \in dropListeners :
          /\ l.id = id /\ l.pc = "pending"
          /\ dropListeners' = (dropListeners \ {l}) \cup {[l EXCEPT !.pc = "active"]}
    /\ UNCHANGED <<mode, single, batchItems, background, singleSourceRef, bgInitRef,
                   batchUnlistenRef, modelCheck, listeners, inflight, runs, nextOp,
                   overlapped, sessionOwner, sessionActive, discarded, globalError,
                   sinkVars, nextEffect>>

\* A "drop" event reaches the registered handler id: with its own disabled it returns,
\* else it hands the image paths, if any, to its own onPaths.
DropReceived(id, paths) ==
    /\ nextOp <= MaxOps
    /\ \E l \in dropListeners :
          /\ l.id = id /\ l.pc = "active"
          /\ ~l.disabled
          /\ LET images == SelectSeq(paths, isImagePath) IN
             /\ Len(images) > 0
             /\ HandlePathsOf(images, l.bg)
    /\ UNCHANGED <<background, bgInitRef, batchUnlistenRef, modelCheck, discarded>>
    /\ UNCHANGED <<globalError, sinkVars>>

\* ---------------------------------------------------------------- start-up

\* The effects of the first render: check_model is invoked, the background effect
\* only clears bgInitRef.
Mount ==
    /\ bgInitRef
    /\ bgInitRef' = FALSE
    /\ modelCheck' = "pending"
    /\ UNCHANGED <<mode, single, batchItems, background, singleSourceRef, batchUnlistenRef,
                   listeners, inflight, runs, nextOp, overlapped, sessionOwner,
                   sessionActive, discarded>>
    /\ UNCHANGED <<globalError, sinkVars>>

\* invoke("check_model").catch(e => setModelError(...)); a resolution has no handler.
CheckModelRejects ==
    /\ modelCheck = "pending"
    /\ modelCheck' = "failed"
    /\ UNCHANGED <<mode, single, batchItems, background, singleSourceRef, bgInitRef,
                   batchUnlistenRef, listeners, inflight, runs, nextOp, overlapped,
                   sessionOwner, sessionActive, discarded>>
    /\ UNCHANGED <<globalError, sinkVars>>

\* ---------------------------------------------------------------- specification

Next ==
    \/ Mount /\ UNCHANGED dropVars
    \/ CheckModelRejects /\ UNCHANGED dropVars
    \/ \E paths \in PathInputs : Drop(paths) /\ UNCHANGED dropVars
    \/ Paste /\ UNCHANGED dropVars
    \/ \E bg \in Backgrounds : SetBackground(bg) /\ UNCHANGED dropVars
    \/ HandleReset /\ UNCHANGED dropVars
    \/ \E req \in inflight : InvokeResolves(req) /\ UNCHANGED dropVars
    \/ \E req \in inflight : InvokeRejects(req) /\ UNCHANGED dropVars
    \/ \E r \in OpIds : ListenRegistered(r) /\ UNCHANGED dropVars
    \/ \E r \in OpIds : ListenResolves(r) /\ UNCHANGED dropVars
    \/ \E r \in OpIds, i \in 0..(MaxBatchLen - 1), ok \in BOOLEAN : BatchProgress(r, i, ok) /\ UNCHANGED dropVars
    \/ ToastExpires /\ UNCHANGED dropVars

Spec == Init /\ [][Next]_vars

\* (Spec is the processing pipeline in which process_batch_images does not reject and
\* nothing is saved or copied; those steps, which write only globalError and the
\* sink state that no step of Next reads, are explored by SpecCommands and SpecApp.
\* The registration of DropZone's drag-drop handler, with the drops that handlers of
\* earlier renders receive, is explored by SpecDropZone.)

\* The single / clipboard pipeline with the user's actions, without the back end's
\* batch steps (they neither read nor write the state this pipeline uses).
NextSingle ==
    \/ Mount /\ UNCHANGED dropVars
    \/ CheckModelRejects /\ UNCHANGED dropVars
    \/ \E paths \in PathInputs : Drop(paths) /\ UNCHANGED dropVars
    \/ Paste /\ UNCHANGED dropVars
    \/ \E bg \in Backgrounds : SetBackground(bg) /\ UNCHANGED dropVars
    \/ HandleReset /\ UNCHANGED dropVars
    \/ \E req \in inflight : InvokeResolves(req) /\ UNCHANGED dropVars
    \/ \E req \in inflight : InvokeRejects(req) /\ UNCHANGED dropVars
    \/ ToastExpires /\ UNCHANGED dropVars

SpecSingle == Init /\ [][NextSingle]_vars

\* The save and copy handlers.
SinkStep ==
    \/ HandleCopy /\ UNCHANGED dropVars
    \/ HandleSaveSingle /\ UNCHANGED dropVars
    \/ \E i \in 1..MaxBatchLen : HandleSaveOne(i) /\ UNCHANGED dropVars
    \/ HandleSaveAll /\ UNCHANGED dropVars
    \/ \E k \in 1..MaxSinkFlows : DialogConfirms(k) /\ UNCHANGED dropVars
    \/ \E k \in 1..MaxSinkFlows : DialogCancels(k) /\ UNCHANGED dropVars
    \/ \E k \in 1..MaxSinkFlows : SinkResolves(k) /\ UNCHANGED dropVars
    \/ \E k \in 1..MaxSinkFlows : SinkRejects(k) /\ UNCHANGED dropVars

\* The whole front end: processing, the failure of process_batch_images, save and
\* copy, on batches of at most MaxAppBatchLen paths.
NextApp ==
    \/ Mount /\ UNCHANGED dropVars
    \/ CheckModelRejects /\ UNCHANGED dropVars
    \/ \E paths \in {p \in PathInputs : Len(p) <= MaxAppBatchLen} : Drop(paths) /\ UNCHANGED dropVars
    \/ Paste /\ UNCHANGED dropVars
    \/ \E bg \in Backgrounds : SetBackground(bg) /\ UNCHANGED dropVars
    \/ HandleReset /\ UNCHANGED dropVars
    \/ \E req \in inflight : InvokeResolves(req) /\ UNCHANGED dropVars
    \/ \E req \in inflight : InvokeRejects(req) /\ UNCHANGED dropVars
    \/ \E r \in OpIds : ListenRegistered(r) /\ UNCHANGED dropVars
    \/ \E r \in OpIds : ListenResolves(r) /\ UNCHANGED dropVars
    \/ \E r \in OpIds, i \in 0..(MaxAppBatchLen - 1), ok \in BOOLEAN : BatchProgress(r, i, ok) /\ UNCHANGED dropVars
    \/ \E r \in OpIds : BatchInvokeRejects(r) /\ UNCHANGED dropVars
    \/ ToastExpires /\ UNCHANGED dropVars
    \/ SinkStep

SpecApp == Init /\ [][NextApp]_vars

\* Every step that issues or settles a processing command, with the user's actions;
\* the progress events, which do neither, are left out.
NextCommands ==
    \/ NextSingle
    \/ \E r \in OpIds : ListenRegistered(r) /\ UNCHANGED dropVars
    \/ \E r \in OpIds : ListenResolves(r) /\ UNCHANGED dropVars
    \/ \E r \in OpIds : BatchInvokeRejects(r) /\ UNCHANGED dropVars

SpecCommands == Init /\ [][NextCommands]_vars

\* The 'batch-progress' handler on its own: any item list a submission builds
\* (pending, or already marked processing), then any sequence of events.
InitHandler ==
    /\ \E op \in OpIds, n \in 1..MaxBatchLen, marked \in BOOLEAN :
          LET items == NewItems(op, [i \in 1..n |-> PathOf(i)]) IN
          batchItems = IF marked THEN MarkProcessing(items) ELSE items
    /\ mode = "batch"
    /\ single = Null
    /\ background = "Transparent"
    /\ singleSourceRef = Null
    /\ bgInitRef = FALSE
    /\ batchUnlistenRef = 0
    /\ modelCheck = "pending"
    /\ listeners = {}
    /\ inflight = {}
    /\ runs = [r \in OpIds |-> NoRun]
    /\ nextOp = 1
    /\ overlapped = {}
    /\ sessionOwner = 0
    /\ sessionActive = FALSE
    /\ discarded = {}
    /\ globalError = Null
    /\ isSavingBatch = FALSE
    /\ sinkFlows = [k \in 1..MaxSinkFlows |-> Null]
    /\ dropListeners = {}
    /\ nextEffect = 1

\* One event, of any run and for any index (one past the longest list included),
\* handled by one handler.
HandlerStep(op, i, ok) ==
    /\ batchItems' = OnBatchProgress(batchItems,
            [index |-> i,
             result_data_url |-> IF ok THEN ResultUrl(op, i, background) ELSE Undefined,
             error |-> IF ok THEN Undefined ELSE ErrMsg(op, i)])
    /\ UNCHANGED <<mode, single, background, singleSourceRef, bgInitRef, batchUnlistenRef,
                   modelCheck, listeners, inflight, runs, nextOp, overlapped, sessionOwner,
                   sessionActive, discarded>>
    /\ UNCHANGED <<globalError, sinkVars>>

NextHandler ==
    \E op \in OpIds, i \in 0..MaxBatchLen, ok \in BOOLEAN :
        HandlerStep(op, i, ok) /\ UNCHANGED dropVars

SpecHandler == InitHandler /\ [][NextHandler]_vars

\* The save handlers of the batch list on any item list the handler can produce.
NextSaveBatch ==
    \/ \E op \in OpIds, i \in 0..MaxBatchLen, ok \in BOOLEAN : HandlerStep(op, i, ok) /\ UNCHANGED dropVars
    \/ \E i \in 1..MaxBatchLen : HandleSaveOne(i) /\ UNCHANGED dropVars
    \/ HandleSaveAll /\ UNCHANGED dropVars
    \/ \E k \in 1..MaxSinkFlows : DialogConfirms(k) /\ UNCHANGED dropVars
    \/ \E k \in 1..MaxSinkFlows : DialogCancels(k) /\ UNCHANGED dropVars
    \/ \E k \in 1..MaxSinkFlows : SinkResolves(k) /\ UNCHANGED dropVars
    \/ \E k \in 1..MaxSinkFlows : SinkRejects(k) /\ UNCHANGED dropVars
    \/ ToastExpires /\ UNCHANGED dropVars

SpecSaveBatch == InitHandler /\ [][NextSaveBatch]_vars

\* The name computations of the save handlers on their own: a finished operation on
\* any source path (no directory, a plain one, a dotted one; any file name of at
\* most MaxNameLen pieces; the clipboard marker), then the save handlers.
Names == UNION {[1..n -> {"a", Dot}] : n \in 0..MaxNameLen}
Dirs == {<< >>, << <<"in">> >>, << <<"in", Dot, "d">> >>}
NamePaths == ({d \o <<n>> : d \in Dirs, n \in Names} \ {<<EmptySeg>>}) \cup {EmptyPath}

InitName ==
    /\ \E p \in NamePaths, m \in {"single", "batch"} :
          /\ mode = m
          /\ m = "batch" => p /= EmptyPath
          /\ single = IF m = "single"
                      THEN [sourceDataUrl |-> IF p = EmptyPath
                                               THEN ResultUrl(1, 0, "Transparent")
                                               ELSE convertFileSrc(p),
                            sourcePath |-> p,
                            resultDataUrl |-> ResultUrl(1, 0, "Transparent"),
                            isProcessing |-> FALSE]
                      ELSE Null
          /\ batchItems = IF m = "batch"
                          THEN LET items == NewItems(1, <<PathOf(1), p>>) IN
                               [i \in DOMAIN items |->
                                   [items[i] EXCEPT !.status = "done",
                                        !.resultDataUrl = ResultUrl(1, i - 1, "Transparent")]]
                          ELSE << >>
          /\ singleSourceRef = IF m = "single"
                               THEN [path |-> p, dataUrl |-> single.sourceDataUrl]
                               ELSE Null
    /\ background = "Transparent"
    /\ bgInitRef = FALSE
    /\ batchUnlistenRef = 0
    /\ modelCheck = "pending"
    /\ listeners = {}
    /\ inflight = {}
    /\ runs = [r \in OpIds |-> NoRun]
    /\ nextOp = 2
    /\ overlapped = {}
    /\ sessionOwner = 0
    /\ sessionActive = FALSE
    /\ discarded = {}
    /\ globalError = Null
    /\ isSavingBatch = FALSE
    /\ sinkFlows = [k \in 1..MaxSinkFlows |-> Null]
    /\ dropListeners = {}
    /\ nextEffect = 1

NextName ==
    \/ HandleSaveSingle /\ UNCHANGED dropVars
    \/ \E i \in 1..MaxBatchLen : HandleSaveOne(i) /\ UNCHANGED dropVars
    \/ \E k \in 1..MaxSinkFlows : DialogConfirms(k) /\ UNCHANGED dropVars
    \/ \E k \in 1..MaxSinkFlows : DialogCancels(k) /\ UNCHANGED dropVars
    \/ \E k \in 1..MaxSinkFlows : SinkResolves(k) /\ UNCHANGED dropVars
    \/ \E k \in 1..MaxSinkFlows : SinkRejects(k) /\ UNCHANGED dropVars
    \/ ToastExpires /\ UNCHANGED dropVars

SpecName == InitName /\ [][NextName]_vars

\* Source dispatch on what a drop or the file dialog can hand over: image paths in
\* lower and upper case, other files, a file without extension in a directory named
\* like an image, a file named like an extension, a name ending with a dot.
RawPaths ==
    { PathOf(1),
      << <<"in">>, <<"b", Dot, "JPG">> >>,
      << <<"in">>, <<"notes", Dot, "txt">> >>,
      << <<"in", Dot, "png">>, <<"readme">> >>,
      << <<"in">>, <<"png">> >>,
      << <<"in">>, <<"d", Dot, "png", Dot, "txt">> >>,
      << <<"in">>, <<"c", Dot>> >> }
\* What is dropped at once: any list of image paths, another file and a file in the
\* directory named like an image.
DropPaths == {p \in RawPaths : isImagePath(p) \/ p[Len(p)] \in {<<"notes", Dot, "txt">>, <<"readme">>}}
RawInputs == UNION {[1..n -> DropPaths] : n \in 0..MaxBatchLen}

NextDispatch ==
    \/ Mount /\ UNCHANGED dropVars
    \/ \E paths \in RawInputs : Drop(paths) /\ UNCHANGED dropVars
    \/ HandleReset /\ UNCHANGED dropVars

SpecDispatch == Init /\ [][NextDispatch]_vars

\* DropZone with its drag-drop effect in the single / clipboard pipeline: every step
\* of the app is followed by the effect of the render it causes.  A drop is received
\* by each registered handler in a step of its own.
NextDropZone ==
    \/ Mount /\ DropZoneEffect(FALSE)
    \/ CheckModelRejects /\ DropZoneEffect(TRUE)
    \/ \E id \in 1..MaxEffects : DropRegistered(id)
    \/ \E id \in 1..MaxEffects, paths \in PathInputs :
          DropReceived(id, paths) /\ DropZoneEffect(FALSE)
    \/ Paste /\ DropZoneEffect(FALSE)
    \/ \E bg \in Backgrounds : SetBackground(bg) /\ DropZoneEffect(TRUE)
    \/ HandleReset /\ DropZoneEffect(FALSE)
    \/ \E req \in inflight : InvokeResolves(req) /\ DropZoneEffect(FALSE)
    \/ \E req \in inflight : InvokeRejects(req) /\ DropZoneEffect(FALSE)

SpecDropZone == Init /\ [][NextDropZone]_vars

\* ---------------------------------------------------------------- shared notions

Terminal == {"done", "error"}

\* No listener registration is pending and every started run has emitted all its events.
Quiescent == \A r \in OpIds : runs[r].pc \in {"none", "running"} /\ runs[r].pending = {}

\* The processBatch call that created the current item list.
ListRun == batchItems[1].id[1]

\* A 'batch-progress' event of run r is delivered in this step.
EventStep(r) ==
    /\ runs[r].pc = "running"
    /\ runs'[r].pending /= runs[r].pending

Rank(st) == CASE st = "pending" -> 0 [] st = "processing" -> 1 [] OTHER -> 2

\* One status change the state machine Pending -> Processing -> {Done | Error} allows.
Monotone(s, t) == Rank(s) <= Rank(t) /\ (s \in Terminal => t = s)

\* The remembered source is the clipboard marker.
ClipSource == singleSourceRef /= Null /\ singleSourceRef.path = EmptyPath

\* ---------------------------------------------------------------- claims

\* C1: the status of a batch item only moves pending -> processing -> {done | error}:
\* in no step does an item (same id, same position) leave done or error, switch
\* between done and error, or fall back from processing to pending.
C1_StatusMonotone ==
    [][\A i \in DOMAIN batchItems :
          (i \in DOMAIN batchItems' /\ batchItems'[i].id = batchItems[i].id)
              => Monotone(batchItems[i].status, batchItems'[i].status)]_vars

\* C2: once every listener registration has returned and every run has emitted all
\* its events, each item of the list that was not reset is done or error, and holds
\* the outcome carried by its own run's event for its index.
C2_BatchCompletes ==
    Quiescent =>
        \A i \in DOMAIN batchItems :
            /\ batchItems[i].status \in Terminal
            /\ batchItems[i].status = "done" =>
                  batchItems[i].resultDataUrl = ResultUrl(ListRun, i - 1, runs[ListRun].bg)
            /\ batchItems[i].status = "error" =>
                  batchItems[i].error = ErrMsg(ListRun, i - 1)

\* C3: a progress event of a run whose list was discarded by reset() changes no item
\* of any list.
C3_StaleEventsDropped ==
    [][\A r \in discarded : EventStep(r) => batchItems' = batchItems]_vars

\* C4: when single requests overlapped, the result left visible once all of them have
\* settled is never that of a request that was still pending when a later one was issued.
C4_LastRequestWins ==
    (inflight = {} /\ mode = "single" /\ single /= Null /\ Truthy(single.resultDataUrl))
        => single.resultDataUrl.op \notin overlapped

\* C5: a batch whose run had exactly the items in `failed` fail ends with exactly those
\* items in error and every other item done.
C5_BatchIsolation ==
    (Quiescent /\ batchItems /= << >>) =>
        \A i \in DOMAIN batchItems :
            batchItems[i].status = IF (i - 1) \in runs[ListRun].failed THEN "error" ELSE "done"

\* C6: every batch item has a result payload iff it is done and an error iff it is in
\* error (so never both, and neither while pending or processing).
C6_PayloadIffDone ==
    \A i \in DOMAIN batchItems :
        /\ Truthy(batchItems[i].resultDataUrl) <=> batchItems[i].status = "done"
        /\ Truthy(batchItems[i].error) <=> batchItems[i].status = "error"

\* C7: reprocess_clipboard_image is issued only while the clipboard session is active
\* (a capture succeeded, no path, batch or capture was submitted since that capture
\* was issued and nothing was reset since it succeeded), and the remembered source is
\* the clipboard marker only while it is.
C7_ClipboardSession ==
    [][/\ \A q \in inflight' \ inflight : q.kind = "reprocess" => sessionActive
       /\ (singleSourceRef' /= Null /\ singleSourceRef'.path = EmptyPath) => sessionActive']_vars

\* C8: process_clipboard_image is invoked only by a paste on the enabled drop zone,
\* never in a step that changes the background; reprocess_clipboard_image is invoked
\* only on a remembered clipboard source, and a background change in single mode on
\* a clipboard source invokes it with the new background.
C8_BackgroundNeverCaptures ==
    [][LET issued == inflight' \ inflight IN
       /\ \A q \in issued : q.kind = "clipboard" =>
              DropZoneEnabled /\ background' = background /\ q.bg = background
       /\ \A q \in issued : q.kind = "reprocess" => ClipSource /\ q.bg = background'
       /\ (background' /= background /\ mode = "single" /\ ClipSource) =>
              \E q \in issued : q.kind = "reprocess" /\ q.bg = background']_vars

\* A reprocess of the cached bitmap with a newly picked background is pending.
C8_Witness ==
    \E q \in inflight : q.kind = "reprocess" /\ q.bg = "White" /\ ClipSource /\ mode = "single"

\* The arrival orders: every sequence listing each element of S once.
RECURSIVE Perms(_)
Perms(S) ==
    IF S = {} THEN {<< >>}
    ELSE UNION {{Append(p, x) : p \in Perms(S \ {x})} : x \in S}

\* The handler applied to the events evs in the arrival order `order`, from position k on.
RECURSIVE ApplyFrom(_, _, _, _)
ApplyFrom(items, evs, order, k) ==
    IF k > Len(order) THEN items
    ELSE ApplyFrom(OnBatchProgress(items, evs[order[k]]), evs, order, k + 1)

\* One event per position of the list, with the outcomes ok.
EventsFor(items, ok) ==
    [i \in DOMAIN items |->
        [index |-> i - 1,
         result_data_url |-> IF ok[i] THEN ResultUrl(items[i].id[1], i - 1, background)
                             ELSE Undefined,
         error |-> IF ok[i] THEN Undefined ELSE ErrMsg(items[i].id[1], i - 1)]]

\* C9: for the item list of any reachable state and any N events with distinct
\* indices, every arrival order gives the same list, in which position i holds the
\* outcome of the event with index i and the item submitted at i.
C9_OrderIndependent ==
    LET n == Len(batchItems)
        orders == Perms(1..n)
    IN
    \A ok \in [1..n -> BOOLEAN] :
        LET evs == EventsFor(batchItems, ok)
            inOrder == ApplyFrom(batchItems, evs, [i \in 1..n |-> i], 1)
        IN /\ \A p \in orders : ApplyFrom(batchItems, evs, p, 1) = inOrder
           /\ \A i \in 1..n :
                /\ inOrder[i].id = batchItems[i].id
                /\ inOrder[i].sourcePath = batchItems[i].sourcePath
                /\ inOrder[i].status = IF ok[i] THEN "done" ELSE "error"
                /\ inOrder[i].resultDataUrl = evs[i].result_data_url
                /\ inOrder[i].error = evs[i].error

\* Events of one run arrived out of submission order: the last item of a three-item
\* list is in error with its own message, the second done, the first still processing.
C9_Witness ==
    /\ Len(batchItems) = 3
    /\ batchItems[1].status = "processing"
    /\ batchItems[2].status = "done"
    /\ batchItems[3].status = "error"
    /\ batchItems[3].error = ErrMsg(ListRun, 2)
    /\ batchItems[2].resultDataUrl.op = ListRun

\* C10: no item of a list is done or error while another item of the same list is
\* still pending.
C10_NoDoneBesidePending ==
    \A i, j \in DOMAIN batchItems :
        ~(batchItems[i].status \in Terminal /\ batchItems[j].status = "pending")

\* The step settles req as a failure: its error is shown, no payload is stored, the
\* remembered source is untouched, isProcessing is false; a failed capture leaves the
\* app idle with no single state.
Failed(req) ==
    /\ globalError' = Toast(req.kind, req.id)
    /\ singleSourceRef' = singleSourceRef
    /\ IF req.kind = "clipboard"
       THEN mode' = "idle" /\ single' = Null
       ELSE /\ mode' = mode
            /\ IF single = Null THEN single' = Null
               ELSE /\ single' /= Null
                    /\ ~single'.isProcessing
                    /\ single'.resultDataUrl = single.resultDataUrl

\* The step settles req as a success: no error is shown and its payload is stored
\* (unless the single state was reset meanwhile).
Applied(req) ==
    /\ globalError' = globalError
    /\ single = Null /\ req.kind /= "clipboard" => single' = Null
    /\ single' /= Null =>
          /\ single'.resultDataUrl = ResultUrl(req.id, 0, req.bg)
          /\ ~single'.isProcessing

\* C11: every step that settles a single, clipboard or reprocess invocation is either
\* a success or a failure that shows that invocation's error, stores no payload and
\* leaves isProcessing false (idle with no single state for a failed capture); no
\* visible result is ever the payload of an invocation whose error is on screen.
C11_SingleFailure ==
    [][/\ \A req \in inflight \ inflight' : Failed(req) \/ Applied(req)
       /\ (single' /= Null /\ globalError' /= Null /\ Truthy(single'.resultDataUrl))
             => single'.resultDataUrl.op /= globalError'.op]_vars

\* A dropped file's invocation has failed: its error is on screen, the preview shows
\* no result and is no longer processing.
C11_Witness ==
    /\ globalError = Toast("single", 1)
    /\ inflight = {}
    /\ mode = "single"
    /\ single /= Null
    /\ ~single.isProcessing
    /\ ~Truthy(single.resultDataUrl)

\* Processing invocations issued, settled, and batch commands invoked or failed, in a step.
Issued == inflight' \ inflight
Settled == inflight \ inflight'
Started == {r \in OpIds : runs[r].pc /= "running" /\ runs'[r].pc = "running"}
BatchFailed == {r \in OpIds : ~runs[r].rejected /\ runs'[r].rejected}

\* The step is a submission by the user: paths or a paste on the enabled drop zone, a
\* drop received by a registered drag-drop handler that is not disabled, or a
\* background picked in the enabled selector while a single source is shown.  It
\* settles nothing and shows no error.
UserSubmits ==
    /\ Settled = {} /\ BatchFailed = {} /\ Started = {}
    /\ globalError' = globalError
    /\ \/ DropZoneEnabled /\ background' = background
       \/ background' = background /\ \E l \in dropListeners : l.pc = "active" /\ ~l.disabled
       \/ OutputOptionsEnabled /\ mode = "single" /\ singleSourceRef /= Null

\* C12: a step in which a processing invocation fails (or settles at all) invokes no
\* processing command; single, clipboard and reprocess commands are invoked only in a
\* submission step of the user, one fresh invocation per step; process_batch_images
\* is invoked only as the continuation of a submission that has not invoked it yet.
C12_NoRetry ==
    [][/\ (Settled /= {} \/ BatchFailed /= {}) => (Issued = {} /\ Started = {})
       /\ Issued /= {} =>
             /\ UserSubmits
             /\ Cardinality(Issued) = 1
             /\ \A q \in Issued : q.id = nextOp /\ nextOp' = nextOp + 1
       /\ \A r \in Started :
             /\ runs[r].pc = "registered"
             /\ ~runs[r].rejected
             /\ Issued = {} /\ nextOp' = nextOp]_vars

\* process_batch_images has failed, its error is still shown, and the only
\* invocation pending is one the user submitted afterwards.
C12_Witness ==
    \E r \in OpIds :
        /\ runs[r].rejected
        /\ globalError = Toast("batch", r)
        /\ mode = "single"
        /\ \E q \in inflight : q.id > r

\* Slots whose handler opens its dialog, or invokes its sink command, in this step.
Opened == {k \in DOMAIN sinkFlows :
              sinkFlows[k] = Null /\ sinkFlows'[k] /= Null /\ sinkFlows'[k].stage = "dialog"}
Invoked == {k \in DOMAIN sinkFlows :
              /\ sinkFlows'[k] /= Null /\ sinkFlows'[k].stage = "invoke"
              /\ (sinkFlows[k] = Null \/ sinkFlows[k].stage /= "invoke")}

\* Nothing of the processing state changes in this step: no completion, no event, no
\* background change, no reset, no submission.
ProcessingIdle ==
    UNCHANGED <<mode, single, batchItems, background, singleSourceRef, inflight, runs,
                nextOp, listeners>>

\* The click that starts the handler of slot k: on an enabled button, with a result.
ClickedWithResult(k) ==
    LET f == sinkFlows'[k] IN
    \/ /\ f.cmd \in {"copy_result_to_clipboard", "save_result_to_file"}
       /\ SingleButtonsEnabled
       /\ Truthy(single.resultDataUrl)
       /\ f.dataUrl = single.resultDataUrl
    \/ /\ f.cmd = "save_result_to_file"
       /\ BatchListShown
       /\ \E i \in DOMAIN batchItems :
              /\ batchItems[i].status = "done"
              /\ Truthy(batchItems[i].resultDataUrl)
              /\ f.dataUrl = batchItems[i].resultDataUrl
    \/ /\ f.cmd = "save_batch_to_folder"
       /\ BatchListShown
       /\ f.doneItems /= << >>
       /\ \A j \in DOMAIN f.doneItems : Truthy(f.doneItems[j].resultDataUrl)

\* C13: a sink command is invoked only in a step that changes nothing of the processing
\* state, and either directly by the copy click on a non-empty result or by the
\* confirmation of a dialog that such a click opened, with the payload the click
\* captured; a dialog that is cancelled or fails invokes nothing.
C13_SinkOnlyOnUserAction ==
    [][/\ (Opened /= {} \/ Invoked /= {}) => ProcessingIdle
       /\ \A k \in Opened : ClickedWithResult(k) /\ sinkFlows'[k].cmd /= "copy_result_to_clipboard"
       /\ \A k \in Invoked :
             IF sinkFlows'[k].cmd = "copy_result_to_clipboard"
             THEN sinkFlows[k] = Null /\ ClickedWithResult(k)
             ELSE /\ sinkFlows[k] /= Null
                  /\ sinkFlows[k].stage = "dialog"
                  /\ sinkFlows'[k].cmd = sinkFlows[k].cmd
                  /\ sinkFlows'[k].dataUrl = sinkFlows[k].dataUrl
                  /\ sinkFlows'[k].items = SinkItems(sinkFlows[k].doneItems)
                  /\ IF sinkFlows[k].cmd = "save_batch_to_folder"
                     THEN /\ sinkFlows'[k].items /= << >>
                          /\ \A j \in DOMAIN sinkFlows'[k].items : Truthy(sinkFlows'[k].items[j][2])
                     ELSE Truthy(sinkFlows'[k].dataUrl)
       /\ \A k \in DOMAIN sinkFlows :
             (sinkFlows[k] /= Null /\ sinkFlows'[k] = Null) => Invoked = {}]_vars

\* save_result_to_file is pending for the result of a dropped file, after the dialog
\* was confirmed.
C13_Witness ==
    \E k \in DOMAIN sinkFlows :
        /\ sinkFlows[k] /= Null
        /\ sinkFlows[k].stage = "invoke"
        /\ sinkFlows[k].cmd = "save_result_to_file"
        /\ mode = "single"
        /\ single /= Null
        /\ sinkFlows[k].dataUrl = single.resultDataUrl

\* C14: the batch list is treated as complete (progress full, save-all offered)
\* exactly when every item is done or error and there is at least one item.
C14_CompletionCountsTerminal ==
    mode = "batch" =>
        (allDone(batchItems) <=>
            /\ Cardinality({i \in DOMAIN batchItems : batchItems[i].status \in Terminal})
                  = Len(batchItems)
            /\ Len(batchItems) > 0)

\* The step is handleReset, or the submission of a new batch.
ResetStep == ResetShown /\ mode' = "idle" /\ single' = Null /\ batchItems' = << >>
SubmitStep == nextOp' /= nextOp /\ mode' = "batch"

\* C15: in every step other than a reset or the submission of a new batch, the list
\* keeps its length and order and each item its id, name and sourcePath; a step that
\* delivers the event of index i changes at most the item at position i (none when i
\* is not a position of the list), and of that item only status, resultDataUrl, error.
C15_ItemSetFixed ==
    [][/\ ~(ResetStep \/ SubmitStep) =>
             /\ Len(batchItems') = Len(batchItems)
             /\ \A j \in DOMAIN batchItems :
                   /\ batchItems'[j].id = batchItems[j].id
                   /\ batchItems'[j].name = batchItems[j].name
                   /\ batchItems'[j].sourcePath = batchItems[j].sourcePath
       /\ \A r \in OpIds : EventStep(r) =>
             \A i \in runs[r].pending \ runs'[r].pending :
                 /\ DOMAIN batchItems' = DOMAIN batchItems
                 /\ \A j \in DOMAIN batchItems :
                       IF j - 1 = i
                       THEN batchItems'[j] =
                              [batchItems[j] EXCEPT !.status = batchItems'[j].status,
                                                    !.resultDataUrl = batchItems'[j].resultDataUrl,
                                                    !.error = batchItems'[j].error]
                       ELSE batchItems'[j] = batchItems[j]]_vars

\* The event of index 2 of a three-item run reached the two-item list submitted after
\* that run: both items are as the run's own marking left them, and the list's own
\* `await listen` has not returned yet.
C15_Witness ==
    /\ Len(batchItems) = 2
    /\ ListRun = 2
    /\ runs[2].pc \in {"listen", "registered"}
    /\ \A j \in DOMAIN batchItems : batchItems[j].status = "processing"
    /\ Len(runs[1].paths) = 3
    /\ runs[1].pc = "running"
    /\ runs[1].pending = {0, 1}

\* Nothing of an operation is left: idle, no single state, no item, no remembered source.
Discarded == mode = "idle" /\ single = Null /\ batchItems = << >> /\ singleSourceRef = Null

\* C16: once the operation state is discarded (as handleReset leaves it), it stays
\* discarded in every step that is not a new submission of the user, whatever
\* invocation started earlier completes in that step.
C16_ResetStaysDiscarded ==
    [][(Discarded /\ nextOp' = nextOp) => Discarded']_vars

\* C17: a step that changes the background while mode is batch issues no processing
\* command and changes no batch item and no run; the options a run was submitted
\* with never change, and every payload in the list was produced with the options of
\* the run that emitted it.
C17_BatchSharesOptions ==
    [][/\ (mode = "batch" /\ background' /= background) =>
             /\ mode' = "batch"
             /\ batchItems' = batchItems
             /\ inflight' = inflight /\ nextOp' = nextOp /\ runs' = runs
       /\ SubmitStep => runs'[nextOp].bg \in Backgrounds
       /\ \A r \in OpIds : runs[r].pc /= "none" => runs'[r].bg = runs[r].bg
       /\ \A i \in DOMAIN batchItems' :
             Truthy(batchItems'[i].resultDataUrl) =>
                 batchItems'[i].resultDataUrl.bg = runs'[batchItems'[i].resultDataUrl.op].bg]_vars

\* The background was changed during a run submitted with the transparent background:
\* a result that arrived afterwards still carries the run's options.
C17_Witness ==
    /\ mode = "batch"
    /\ background = "White"
    /\ batchItems /= << >>
    /\ runs[ListRun].bg = "Transparent"
    /\ runs[ListRun].pending /= {}
    /\ \E i \in DOMAIN batchItems :
          /\ batchItems[i].status = "done"
          /\ batchItems[i].resultDataUrl = ResultUrl(ListRun, i - 1, "Transparent")

\* ds lists, in the order of the list, exactly the items of `items` that are done with
\* a non-empty payload.
IsDoneSelection(ds, items) ==
    LET sel == {i \in DOMAIN items : items[i].status = "done" /\ Truthy(items[i].resultDataUrl)}
    IN /\ Len(ds) = Cardinality(sel)
       /\ \E f \in [DOMAIN ds -> sel] :
             /\ \A a, b \in DOMAIN ds : a < b => f[a] < f[b]
             /\ \A a \in DOMAIN ds : ds[a] = items[f[a]]

\* C18: what handleSaveAll selects from a list is exactly its done items with a
\* payload, in submission order (no error, pending or processing item); the click
\* captures that selection, and save_batch_to_folder receives one (name, payload)
\* unit per selected item, in the same order.
C18_SaveAllUnits ==
    [][/\ IsDoneSelection(doneItems(batchItems), batchItems)
       /\ \A k \in Opened :
             sinkFlows'[k].cmd = "save_batch_to_folder" =>
                 sinkFlows'[k].doneItems = doneItems(batchItems)
       /\ \A k \in Invoked :
             sinkFlows'[k].cmd = "save_batch_to_folder" =>
                 LET ds == sinkFlows[k].doneItems
                     units == sinkFlows'[k].items
                 IN /\ Len(units) = Len(ds)
                    /\ Len(units) > 0
                    /\ \A j \in DOMAIN units :
                          /\ units[j] = <<ds[j].name, ds[j].resultDataUrl>>
                          /\ ds[j].status = "done"
                          /\ Truthy(units[j][2])]_vars

\* save_batch_to_folder is pending with the three units of a three-item list, in
\* submission order.
C18_Witness ==
    \E k \in DOMAIN sinkFlows :
        /\ sinkFlows[k] /= Null
        /\ sinkFlows[k].stage = "invoke"
        /\ sinkFlows[k].cmd = "save_batch_to_folder"
        /\ isSavingBatch
        /\ Len(sinkFlows[k].items) = 3
        /\ \A j \in 1..3 : sinkFlows[k].items[j][1] = FileNames[j]

\* The file name n ends with an extension: a dot followed by at least one piece, none
\* of them a dot.
HasExt(n) ==
    \E k \in DOMAIN n : n[k] = Dot /\ k < Len(n) /\ \A j \in (k + 1)..Len(n) : n[j] /= Dot

\* n without that extension.
WithoutExt(n) ==
    IF HasExt(n)
    THEN CHOOSE r \in {SubSeq(n, 1, k) : k \in 0..Len(n)} :
            \E ext \in {SubSeq(n, k, Len(n)) : k \in 1..Len(n)} :
                /\ n = r \o <<Dot>> \o ext
                /\ \A j \in DOMAIN ext : ext[j] /= Dot
    ELSE n

\* The destination name the claim gives for a source path.
SuggestedName(p) ==
    IF p = EmptyPath THEN <<"output", "_nobg", Dot, "png">>
    ELSE WithoutExt(p[Len(p)]) \o <<"_nobg", Dot, "png">>

\* C19: the name proposed by a save dialog is the final segment of the source path
\* without its last extension, followed by _nobg.png (output_nobg.png for the
\* clipboard marker), whether the single save or the per-item save computed it, and
\* both computations agree on every source path.
C19_SuggestedName ==
    /\ \A k \in DOMAIN sinkFlows :
          (sinkFlows[k] /= Null /\ sinkFlows[k].cmd = "save_result_to_file") =>
              IF mode = "single"
              THEN sinkFlows[k].defaultPath = SuggestedName(single.sourcePath)
              ELSE \E i \in DOMAIN batchItems :
                      /\ sinkFlows[k].dataUrl = batchItems[i].resultDataUrl
                      /\ sinkFlows[k].defaultPath = SuggestedName(batchItems[i].sourcePath)
    /\ (single /= Null /\ single.sourcePath /= EmptyPath) =>
          SingleDefaultPath(single.sourcePath) = ItemDefaultPath(Basename(single.sourcePath))
    /\ \A i \in DOMAIN batchItems :
          ItemDefaultPath(batchItems[i].name) = SingleDefaultPath(batchItems[i].sourcePath)

\* The per-item save dialog is open for in.d/a.a.a and proposes a.a_nobg.png.
C19_Witness ==
    \E k \in DOMAIN sinkFlows :
        /\ sinkFlows[k] /= Null
        /\ sinkFlows[k].stage = "dialog"
        /\ mode = "batch"
        /\ batchItems[2].sourcePath = << <<"in", Dot, "d">>, <<"a", Dot, "a", Dot, "a">> >>
        /\ sinkFlows[k].dataUrl = batchItems[2].resultDataUrl
        /\ sinkFlows[k].defaultPath = <<"a", Dot, "a", "_nobg", Dot, "png">>

\* C20: while the preview of a single source is shown, isProcessing is true exactly
\* when a processing invocation for that source is still pending.
C20_IsProcessingTracksInflight ==
    (mode = "single" /\ single /= Null) =>
        (single.isProcessing <=> \E q \in inflight : q.path = single.sourcePath)

\* C21: a result shown in single mode while isProcessing is false was produced with
\* the background currently selected.
C21_ResultMatchesBackground ==
    (mode = "single" /\ single /= Null /\ ~single.isProcessing /\ Truthy(single.resultDataUrl))
        => single.resultDataUrl.bg = background

\* Every batch submitted so far has been reset and none was submitted since.
NoLiveBatch == \A r \in OpIds : runs[r].pc /= "none" => r \in discarded

\* C22: at most one 'batch-progress' listener is subscribed at any time, none while
\* every submitted batch has been reset, and process_batch_images is never started
\* for a batch that was reset before its listener registration returned.
C22_OneBatchListener ==
    [][/\ Cardinality(listeners') <= 1
       /\ NoLiveBatch' => listeners' = {}
       /\ \A r \in Started : r \notin discarded]_vars

\* C23: in a step taken while modelError is set, no processing command is issued and
\* no batch is submitted.
C23_ModelErrorBlocks ==
    [][modelError => (Issued = {} /\ nextOp' = nextOp)]_vars

\* A save_batch_to_folder invocation is pending.
SaveInFlight ==
    \E k \in DOMAIN sinkFlows :
        /\ sinkFlows[k] /= Null
        /\ sinkFlows[k].cmd = "save_batch_to_folder"
        /\ sinkFlows[k].stage = "invoke"

\* C27: isSavingBatch is true only while a save_batch_to_folder invocation is pending:
\* it is false while the folder dialog is open, after the dialog was cancelled and
\* after the invocation succeeded or failed, and it is set when the invocation starts.
C27_SavingOnlyInFlight ==
    [][/\ isSavingBatch' => SaveInFlight'
       /\ \A k \in Invoked : sinkFlows'[k].cmd = "save_batch_to_folder" => isSavingBatch'
       /\ (isSavingBatch /\ ~SaveInFlight') => ~isSavingBatch']_vars

\* The folder dialog was confirmed: save_batch_to_folder is pending and isSavingBatch
\* is set, the save-all button being disabled.
C27_Witness ==
    /\ isSavingBatch
    /\ SaveInFlight
    /\ mode = "batch"
    /\ allDone(batchItems)

\* The path's last segment ends with an accepted extension, in either case.
AcceptedExt(p) ==
    /\ p /= EmptyPath
    /\ HasExt(p[Len(p)])
    /\ toLowerCase(p[Len(p)][Len(p[Len(p)])]) \in ACCEPTED_EXTENSIONS
    /\ p[Len(p)][Len(p[Len(p)]) - 1] = Dot

\* C25: the filter lets through exactly the paths with an accepted extension; a step that submits paths either starts one
\* process_single_image on one path with an accepted extension and creates no batch,
\* or creates a batch of at least two items, each with an accepted extension, and
\* issues no single invocation.
C25_SourceDispatch ==
    [][/\ \A p \in RawPaths : isImagePath(p) <=> AcceptedExt(p)
       /\ \A q \in Issued : q.kind = "single" =>
             /\ AcceptedExt(q.path)
             /\ Cardinality(Issued) = 1
             /\ mode' = "single"
             /\ single'.sourcePath = q.path
             /\ batchItems' = batchItems /\ runs' = runs
       /\ SubmitStep =>
             /\ Len(batchItems') >= 2
             /\ \A i \in DOMAIN batchItems' : AcceptedExt(batchItems'[i].sourcePath)
             /\ runs'[nextOp].paths = [i \in DOMAIN batchItems' |-> batchItems'[i].sourcePath]
             /\ Issued = {}]_vars

\* A batch of two items, a.png and b.JPG, in that order, is being submitted.
C25_Witness ==
    /\ mode = "batch"
    /\ Len(batchItems) = 2
    /\ batchItems[1].sourcePath = PathOf(1)
    /\ batchItems[2].sourcePath = << <<"in">>, <<"b", Dot, "JPG">> >>
    /\ runs[ListRun].pc = "listen"

\* The drag-drop handlers that receive events.
ActiveDropListeners == {l \in dropListeners : l.pc = "active"}

\* C24: at most one drag-drop handler of DropZone receives events, none while
\* DropZone is not rendered, and the one that does holds the current props (disabled,
\* and onPaths with the selected background).
C24_OneDropListener ==
    /\ Cardinality(ActiveDropListeners) <= 1
    /\ ~DropZoneShown => ActiveDropListeners = {}
    /\ \A l \in ActiveDropListeners : l.kept /\ l.disabled = modelError /\ l.bg = background

\* C26: a step that changes the background issues a processing invocation exactly
\* when mode is single and a source is remembered (process_single_image on a
\* remembered path, reprocess_clipboard_image on the clipboard marker); the effects of
\* the first render issue none; every invocation issued and every batch submitted
\* carries the background selected once the step is done.
C26_BackgroundEffect ==
    [][/\ background' /= background =>
             /\ Issued /= {} <=> (mode = "single" /\ singleSourceRef /= Null)
             /\ \A q \in Issued :
                   q.kind = IF singleSourceRef.path = EmptyPath THEN "reprocess" ELSE "single"
             /\ ~SubmitStep
       /\ bgInitRef => (Issued = {} /\ nextOp' = nextOp)
       /\ \A q \in Issued : q.bg = background'
       /\ SubmitStep => runs'[nextOp].bg = background']_vars

====
